---- MODULE Spec2Model ----
(***************************************************************************)
(* Dependency graph engine of Cartographer                                 *)
(* (plugins/cartographer/scripts/dependency_graph.py).                     *)
(*                                                                         *)
(* Strings are sequences of one-character strings, so that endswith,       *)
(* replace, split and join are computed character by character.  A path    *)
(* is the sequence of its segments.                                        *)
(***************************************************************************)
EXTENDS Naturals, Integers, Sequences, FiniteSets, TLC

VARIABLES files, contents, nodes, nodeOrder, edges, circular, pc, fi, run,
          prevEdges, pathA, pathB, modA, modB,
          maxNodes, diagram, prevDiagram, report, srcPath, srcText, refs

vars == <<files, contents, nodes, nodeOrder, edges, circular, pc, fi, run,
          prevEdges, pathA, pathB, modA, modB,
          maxNodes, diagram, prevDiagram, report, srcPath, srcText, refs>>

buildVars == <<files, contents, nodes, nodeOrder, edges, circular, pc, fi,
               run, prevEdges>>

idVars == <<pathA, pathB, modA, modB>>

outVars == <<maxNodes, diagram, prevDiagram, report>>

exVars == <<srcPath, srcText, refs>>

----------------------------------------------------------------------------
(* Bounds *)

MaxFiles == 2

MaxEdges == 3

MaxDepth == 1

MaxShown == 4

MaxStmts == 2

RingSize == 12

----------------------------------------------------------------------------
(* String primitives *)

EndsWith(s, t) ==
    /\ Len(t) <= Len(s)
    /\ SubSeq(s, Len(s) - Len(t) + 1, Len(s)) = t

StartsWith(s, t) ==
    /\ Len(t) <= Len(s)
    /\ SubSeq(s, 1, Len(t)) = t

InSeq(x, s) == \E i \in 1..Len(s) : s[i] = x

Last(s) == s[Len(s)]

\* Position of the last occurrence of character c in s, 0 when absent.
LastIndexOf(s, c) ==
    IF \E i \in 1..Len(s) : s[i] = c
    THEN CHOOSE i \in 1..Len(s) :
            /\ s[i] = c
            /\ \A j \in (i + 1)..Len(s) : s[j] # c
    ELSE 0

\* Position of the first occurrence of character c in s, 0 when absent.
FirstIndexOf(s, c) ==
    IF \E i \in 1..Len(s) : s[i] = c
    THEN CHOOSE i \in 1..Len(s) :
            /\ s[i] = c
            /\ \A j \in 1..(i - 1) : s[j] # c
    ELSE 0

\* s.rsplit('.', 1)[0]
RSplitDot(s) ==
    IF LastIndexOf(s, ".") = 0 THEN s
    ELSE SubSeq(s, 1, LastIndexOf(s, ".") - 1)

\* s.split(c)[0]
SplitFirst(s, c) ==
    IF FirstIndexOf(s, c) = 0 THEN s
    ELSE SubSeq(s, 1, FirstIndexOf(s, c) - 1)

\* s.split('/')[-1]
SplitLast(s) == SubSeq(s, LastIndexOf(s, "/") + 1, Len(s))

\* s.replace('.', '/')
ReplaceDots(s) == [i \in 1..Len(s) |-> IF s[i] = "." THEN "/" ELSE s[i]]

\* '/'.join(parts)
RECURSIVE JoinSlash(_)
JoinSlash(parts) ==
    IF parts = <<>> THEN <<>>
    ELSE IF Len(parts) = 1 THEN Head(parts)
    ELSE Head(parts) \o <<"/">> \o JoinSlash(Tail(parts))

----------------------------------------------------------------------------
(* Literals *)

DotPy == <<".", "p", "y">>
DotRs == <<".", "r", "s">>
DotJs == <<".", "j", "s">>
DotTs == <<".", "t", "s">>

NameMod == <<"m", "o", "d">>
NameIndex == <<"i", "n", "d", "e", "x">>
NameInit == <<"_", "_", "i", "n", "i", "t", "_", "_">>
NameMain == <<"m", "a", "i", "n">>

IndexNames == {NameMod, NameIndex, NameInit, NameMain}

RootSentinel == <<"r", "o", "o", "t">>

ScanRoot == << <<"r">> >>

----------------------------------------------------------------------------
(* Module Identity Resolver *)

\* path.relative_to(root) raises ValueError unless root is a prefix of path
IsUnder(path, root) ==
    /\ Len(path) > Len(root)
    /\ SubSeq(path, 1, Len(root)) = root

RelParts(path, root) == SubSeq(path, Len(root) + 1, Len(path))

\* the extension removed whatever it is
StripAnyExt(parts) ==
    [parts EXCEPT ![Len(parts)] = RSplitDot(parts[Len(parts)])]

StripExt(parts) ==
    IF EndsWith(Last(parts), DotPy) \/ EndsWith(Last(parts), DotRs)
    THEN [parts EXCEPT ![Len(parts)] = RSplitDot(parts[Len(parts)])]
    ELSE parts

DropIndex(parts) ==
    IF Last(parts) \in IndexNames
    THEN SubSeq(parts, 1, Len(parts) - 1)
    ELSE parts

normalize_module_name(path, root) ==
    LET parts == DropIndex(StripExt(RelParts(path, root)))
    IN  IF parts # <<>> THEN JoinSlash(parts) ELSE RootSentinel

----------------------------------------------------------------------------
(* Import Extractor *)

(* A file's text is the sequence of its import statements in text order;   *)
(* a statement is [form, arg]: form names the syntactic construct and arg  *)
(* is the target as written.                                               *)

Stmt(form, arg) == [form |-> form, arg |-> arg]

RECURSIVE MapArgs(_, _, _)
MapArgs(content, form, i) ==
    IF i > Len(content) THEN <<>>
    ELSE IF content[i].form = form
         THEN <<content[i].arg>> \o MapArgs(content, form, i + 1)
         ELSE MapArgs(content, form, i + 1)

\* re.finditer over the whole text for one statement form, in text order
ArgsOf(content, form) == MapArgs(content, form, 1)

\* match.group(1).split(',')[0].split(' ')[0]; \S+ holds no space
PyImportToken(arg) == SplitFirst(arg, ",")

RECURSIVE PyImportTokens(_)
PyImportTokens(s) ==
    IF s = <<>> THEN <<>>
    ELSE <<PyImportToken(Head(s))>> \o PyImportTokens(Tail(s))

\* the two passes in the other order
extract_imports_python_import_first(content) ==
    PyImportTokens(ArgsOf(content, "py_import"))
        \o ArgsOf(content, "py_from")

extract_imports_python(content) ==
    ArgsOf(content, "py_from")
        \o PyImportTokens(ArgsOf(content, "py_import"))

CratePrefix == <<"c", "r", "a", "t", "e", ":", ":">>

NonWordChars == {":", ".", "/", ",", "@", "-", "{", "*"}

\* leading run of \w characters
RECURSIVE WordPrefix(_)
WordPrefix(s) ==
    IF s = <<>> \/ Head(s) \in NonWordChars THEN <<>>
    ELSE <<Head(s)>> \o WordPrefix(Tail(s))

\* (?:crate::)?(\w+) : the optional prefix is given up when \w+ cannot
\* match after it
RsUseCapture(arg) ==
    IF StartsWith(arg, CratePrefix)
       /\ WordPrefix(SubSeq(arg, Len(CratePrefix) + 1, Len(arg))) # <<>>
    THEN WordPrefix(SubSeq(arg, Len(CratePrefix) + 1, Len(arg)))
    ELSE WordPrefix(arg)

RsModCapture(arg) == IF WordPrefix(arg) = arg THEN arg ELSE <<>>

\* the captures of the statements that match; an empty capture is no match
RECURSIVE RsUseCaptures(_)
RsUseCaptures(s) ==
    IF s = <<>> THEN <<>>
    ELSE IF RsUseCapture(Head(s)) = <<>> THEN RsUseCaptures(Tail(s))
    ELSE <<RsUseCapture(Head(s))>> \o RsUseCaptures(Tail(s))

RECURSIVE RsModCaptures(_)
RsModCaptures(s) ==
    IF s = <<>> THEN <<>>
    ELSE IF RsModCapture(Head(s)) = <<>> THEN RsModCaptures(Tail(s))
    ELSE <<RsModCapture(Head(s))>> \o RsModCaptures(Tail(s))

extract_imports_rust(content) ==
    RsUseCaptures(ArgsOf(content, "rs_use"))
        \o RsModCaptures(ArgsOf(content, "rs_mod"))

StripOne(s, c) == IF s # <<>> /\ Head(s) = c THEN Tail(s) ELSE s

\* \.?\.?/?([^'"]+) : greedy, backing off one character when the group
\* would otherwise be empty
JsCapture(arg) ==
    LET s1 == StripOne(arg, ".")
        s2 == StripOne(s1, ".")
        s3 == StripOne(s2, "/")
    IN  IF s3 # <<>> THEN s3
        ELSE IF s2 # <<>> THEN s2
        ELSE IF s1 # <<>> THEN s1
        ELSE arg

AtSign == <<"@">>
NodeModules == <<"n", "o", "d", "e", "_", "m", "o", "d", "u", "l", "e", "s">>

JsFromKeep(p) == ~StartsWith(p, AtSign) /\ ~StartsWith(p, NodeModules)

JsRequireKeep(p) == ~StartsWith(p, AtSign)

RECURSIVE JsFromCaptures(_)
JsFromCaptures(s) ==
    IF s = <<>> THEN <<>>
    ELSE IF JsFromKeep(JsCapture(Head(s)))
         THEN <<JsCapture(Head(s))>> \o JsFromCaptures(Tail(s))
         ELSE JsFromCaptures(Tail(s))

RECURSIVE JsRequireCaptures(_)
JsRequireCaptures(s) ==
    IF s = <<>> THEN <<>>
    ELSE IF JsRequireKeep(JsCapture(Head(s)))
         THEN <<JsCapture(Head(s))>> \o JsRequireCaptures(Tail(s))
         ELSE JsRequireCaptures(Tail(s))

extract_imports_js(content) ==
    JsFromCaptures(ArgsOf(content, "js_from"))
        \o JsRequireCaptures(ArgsOf(content, "js_require"))

\* Path.suffix of the final segment (lower-case names only)
Suffix(name) ==
    IF LastIndexOf(name, ".") > 1 /\ LastIndexOf(name, ".") < Len(name)
    THEN SubSeq(name, LastIndexOf(name, "."), Len(name))
    ELSE <<>>

\* the language dispatch of build_dependency_graph
ExtractImports(path, content) ==
    LET ext == Suffix(Last(path))
    IN  IF ext = DotPy THEN extract_imports_python(content)
        ELSE IF ext = DotRs THEN extract_imports_rust(content)
        ELSE IF ext \in {DotJs, DotTs, DotJs \o <<"x">>, DotTs \o <<"x">>}
             THEN extract_imports_js(content)
        ELSE <<>>

----------------------------------------------------------------------------
(* Cycle Detector *)

\* the loop with the membership test made on the edge itself
RECURSIVE DetectFromForward(_, _, _)
DetectFromForward(es, i, circ) ==
    IF i > Len(es) THEN circ
    ELSE IF InSeq(es[i], es)
            /\ ~InSeq(<<es[i][2], es[i][1]>>, circ)
         THEN DetectFromForward(es, i + 1, Append(circ, es[i]))
         ELSE DetectFromForward(es, i + 1, circ)

\* the loop of lines 129-131 from edge i on, circ being the list so far
RECURSIVE DetectFrom(_, _, _)
DetectFrom(es, i, circ) ==
    IF i > Len(es) THEN circ
    ELSE IF InSeq(<<es[i][2], es[i][1]>>, es)
            /\ ~InSeq(<<es[i][2], es[i][1]>>, circ)
         THEN DetectFrom(es, i + 1, Append(circ, es[i]))
         ELSE DetectFrom(es, i + 1, circ)

RECURSIVE ReachSet(_, _, _)
ReachSet(es, S, n) ==
    IF n = 0 THEN S
    ELSE ReachSet(es,
                  S \cup {es[k][2] : k \in {j \in 1..Len(es) : es[j][1] \in S}},
                  n - 1)

RECURSIVE DetectPathsFrom(_, _, _)
DetectPathsFrom(es, i, circ) ==
    IF i > Len(es) THEN circ
    ELSE IF es[i][1] \in ReachSet(es, {es[i][2]}, Len(es))
            /\ ~InSeq(<<es[i][2], es[i][1]>>, circ)
         THEN DetectPathsFrom(es, i + 1, Append(circ, es[i]))
         ELSE DetectPathsFrom(es, i + 1, circ)

\* a detector that follows paths of any length back to the source
detect_cycles_of_any_length(es) == DetectPathsFrom(es, 1, <<>>)

detect_circular_dependencies(es) == DetectFrom(es, 1, <<>>)

----------------------------------------------------------------------------
(* Graph Builder *)

\* the condition of line 107
Matches(known_module, imp_normalized) ==
    \/ EndsWith(known_module, imp_normalized)
    \/ EndsWith(imp_normalized, SplitLast(known_module))

\* index of the last node that matches, 0 if none
LastMatch(imp_normalized, order) ==
    IF \E k \in 1..Len(order) : Matches(order[k], imp_normalized)
    THEN CHOOSE k \in 1..Len(order) :
            /\ Matches(order[k], imp_normalized)
            /\ \A j \in (k + 1)..Len(order) : ~Matches(order[j], imp_normalized)
    ELSE 0

\* index in the iteration order of the first node that matches, 0 if none
FirstMatch(imp_normalized, order) ==
    IF \E k \in 1..Len(order) : Matches(order[k], imp_normalized)
    THEN CHOOSE k \in 1..Len(order) :
            /\ Matches(order[k], imp_normalized)
            /\ \A j \in 1..(k - 1) : ~Matches(order[j], imp_normalized)
    ELSE 0

\* the resolution without the test of line 108
ResolveImportNoSelfTest(module_name, imp, order) ==
    LET imp_normalized == ReplaceDots(imp)
        k == FirstMatch(imp_normalized, order)
    IN  IF k = 0 THEN <<>>
        ELSE << <<module_name, order[k]>> >>

\* the resolution keeping a reference that no node matches as a target
ResolveImportKeepingUnmatched(module_name, imp, order) ==
    LET imp_normalized == ReplaceDots(imp)
        k == FirstMatch(imp_normalized, order)
    IN  IF k = 0 THEN << <<module_name, imp_normalized>> >>
        ELSE IF module_name # order[k]
             THEN << <<module_name, order[k]>> >>
             ELSE <<>>

\* the resolution going on to the next matching node after a self match
ResolveImportSkippingSelf(module_name, imp, order) ==
    LET imp_normalized == ReplaceDots(imp)
        others == {k \in 1..Len(order) :
                      /\ Matches(order[k], imp_normalized)
                      /\ order[k] # module_name}
    IN  IF others = {} THEN <<>>
        ELSE << <<module_name,
                  order[CHOOSE k \in others : \A j \in others : k <= j]>> >>

\* lines 100-110 for one import: the edges it appends
ResolveImport(module_name, imp, order) ==
    LET imp_normalized == ReplaceDots(imp)
        k == FirstMatch(imp_normalized, order)
    IN  IF k = 0 THEN <<>>
        ELSE IF module_name # order[k]
             THEN << <<module_name, order[k]>> >>
             ELSE <<>>

RECURSIVE FileEdges(_, _, _)
FileEdges(module_name, imports, order) ==
    IF imports = <<>> THEN <<>>
    ELSE ResolveImport(module_name, Head(imports), order)
            \o FileEdges(module_name, Tail(imports), order)

----------------------------------------------------------------------------
(* Connectivity Reporter *)

DefaultMaxNodes == 50

TopN == 10

Min(a, b) == IF a <= b THEN a ELSE b

\* node.replace('"', "'")
ReplaceQuote(s) == [i \in 1..Len(s) |-> IF s[i] = "\"" THEN "'" ELSE s[i]]

\* every node kept, whatever max_nodes is
SelectedAll(order, max_nodes) == order

\* list(graph.nodes)[:max_nodes]
SelectedNodes(order, max_nodes) ==
    IF max_nodes >= 0
    THEN SubSeq(order, 1, Min(max_nodes, Len(order)))
    ELSE SubSeq(order, 1, Len(order) + max_nodes)

\* the number i of node_ids[n] = "N{i}"
NodeIdOf(sel, n) == (CHOOSE i \in 1..Len(sel) : sel[i] = n) - 1

DeclLines(sel) ==
    [i \in 1..Len(sel) |->
        [kind |-> "decl", id |-> i - 1, label |-> ReplaceQuote(sel[i])]]

ConnLine(sel, e) ==
    [kind |-> "conn", src |-> NodeIdOf(sel, e[1]), dst |-> NodeIdOf(sel, e[2])]

\* the edge loop without the added_edges test
RECURSIVE ConnLinesRepeated(_, _, _, _)
ConnLinesRepeated(es, sel, i, added) ==
    IF i > Len(es) THEN <<>>
    ELSE IF InSeq(es[i][1], sel) /\ InSeq(es[i][2], sel)
         THEN <<ConnLine(sel, es[i])>>
                 \o ConnLinesRepeated(es, sel, i + 1, added)
         ELSE ConnLinesRepeated(es, sel, i + 1, added)

\* lines 151-157 from edge i on, added being added_edges
RECURSIVE ConnLines(_, _, _, _)
ConnLines(es, sel, i, added) ==
    IF i > Len(es) THEN <<>>
    ELSE IF InSeq(es[i][1], sel) /\ InSeq(es[i][2], sel)
            /\ es[i] \notin added
         THEN <<ConnLine(sel, es[i])>>
                 \o ConnLines(es, sel, i + 1, added \cup {es[i]})
         ELSE ConnLines(es, sel, i + 1, added)

\* a marker for every circular pair, selected or not
RECURSIVE MarkerLinesUnfiltered(_, _, _)
MarkerLinesUnfiltered(circ, sel, i) ==
    IF i > Len(circ) THEN <<>>
    ELSE <<[kind |-> "style"]>> \o MarkerLinesUnfiltered(circ, sel, i + 1)

\* lines 160-162 from circular pair i on
RECURSIVE MarkerLines(_, _, _)
MarkerLines(circ, sel, i) ==
    IF i > Len(circ) THEN <<>>
    ELSE IF InSeq(circ[i][1], sel) /\ InSeq(circ[i][2], sel)
         THEN <<[kind |-> "style"]>> \o MarkerLines(circ, sel, i + 1)
         ELSE MarkerLines(circ, sel, i + 1)

generate_mermaid(order, es, circ, max_nodes) ==
    <<[kind |-> "fence"], [kind |-> "graph"]>>
        \o DeclLines(SelectedNodes(order, max_nodes))
        \o ConnLines(es, SelectedNodes(order, max_nodes), 1, {})
        \o MarkerLines(circ, SelectedNodes(order, max_nodes), 1)
        \o <<[kind |-> "fence"]>>

\* the keys of a count dict in insertion order: the nodes in iteration
\* order, then any edge endpoint (side 1 source, side 2 target) not yet a key
RECURSIVE DictKeys(_, _, _, _)
DictKeys(keys, es, side, i) ==
    IF i > Len(es) THEN keys
    ELSE IF InSeq(es[i][side], keys) THEN DictKeys(keys, es, side, i + 1)
    ELSE DictKeys(Append(keys, es[i][side]), es, side, i + 1)

\* the count with source and target exchanged
RECURSIVE CountOther(_, _, _, _)
CountOther(es, side, n, i) ==
    IF i > Len(es) THEN 0
    ELSE (IF es[i][3 - side] = n THEN 1 ELSE 0) + CountOther(es, side, n, i + 1)

\* lines 200-202: the number of edge records from i on with n on that side
RECURSIVE CountEdges(_, _, _, _)
CountEdges(es, side, n, i) ==
    IF i > Len(es) THEN 0
    ELSE (IF es[i][side] = n THEN 1 ELSE 0) + CountEdges(es, side, n, i + 1)

\* dict.items(): <<key, count>> in insertion order
DictItems(order, es, side) ==
    [k \in 1..Len(DictKeys(order, es, side, 1)) |->
        <<DictKeys(order, es, side, 1)[k],
          CountEdges(es, side, DictKeys(order, es, side, 1)[k], 1)>>]

\* sorted(..., key=lambda x: -x[1]) is stable: an item goes before the
\* first item of smaller count
RECURSIVE InsertDesc(_, _)
InsertDesc(sorted, it) ==
    IF sorted = <<>> THEN <<it>>
    ELSE IF Head(sorted)[2] < it[2] THEN <<it>> \o sorted
    ELSE <<Head(sorted)>> \o InsertDesc(Tail(sorted), it)

RECURSIVE SortDesc(_, _, _)
SortDesc(items, i, acc) ==
    IF i > Len(items) THEN acc
    ELSE SortDesc(items, i + 1, InsertDesc(acc, items[i]))

RECURSIVE Positive(_)
Positive(items) ==
    IF items = <<>> THEN <<>>
    ELSE IF Head(items)[2] > 0 THEN <<Head(items)>> \o Positive(Tail(items))
    ELSE Positive(Tail(items))

\* the ranked list without the [:10]
TopEntriesUncapped(items) == Positive(SortDesc(items, 1, <<>>))

\* lines 208-210 and 215-217
TopEntries(items) ==
    Positive(SubSeq(SortDesc(items, 1, <<>>), 1, Min(TopN, Len(items))))

generate_dependency_report(ns, order, es, circ) ==
    [made |-> TRUE,
     modules |-> Cardinality(ns),
     dependencies |-> Len(es),
     circularCount |-> Len(circ),
     diagram |-> generate_mermaid(order, es, circ, DefaultMaxNodes),
     circularLines |-> circ,
     incoming |-> DictItems(order, es, 2),
     outgoing |-> DictItems(order, es, 1),
     mostImported |-> TopEntries(DictItems(order, es, 2)),
     mostImporting |-> TopEntries(DictItems(order, es, 1))]

NoDiagram == <<>>

NoReport ==
    [made |-> FALSE, modules |-> 0, dependencies |-> 0, circularCount |-> 0,
     diagram |-> <<>>, circularLines |-> <<>>, incoming |-> <<>>,
     outgoing |-> <<>>, mostImported |-> <<>>, mostImporting |-> <<>>]

----------------------------------------------------------------------------
(* Inputs *)

ChA == <<"a">>
ChB == <<"b">>
ChC == <<"c">>

FilePool ==
    { << <<"r">>, ChA \o DotPy >>,
      << <<"r">>, ChB \o DotPy >>,
      << <<"r">>, <<"p">>, ChA \o DotPy >>,
      << <<"r">>, ChB \o DotRs >>,
      << <<"r">>, ChC \o DotTs >>,
      << <<"x">>, ChC \o DotPy >> }

PyTexts ==
    { <<>>,
      << Stmt("py_import", ChA) >>,
      << Stmt("py_from", ChB), Stmt("py_import", ChB) >>,
      << Stmt("py_import", ChB), Stmt("py_from", ChA) >> }

RsTexts ==
    { <<>>,
      << Stmt("rs_use", CratePrefix \o ChA \o <<":", ":">> \o ChB) >> }

JsTexts ==
    { <<>>,
      << Stmt("js_require", <<".", "/">> \o ChB),
         Stmt("js_from", <<".", "/">> \o ChA) >> }

AllTexts == PyTexts \cup RsTexts \cup JsTexts

TextsFor(path) ==
    IF Suffix(Last(path)) = DotPy THEN PyTexts
    ELSE IF Suffix(Last(path)) = DotRs THEN RsTexts
    ELSE JsTexts

\* what open()/read() gives for a file: its text, or an exception
Readable(text) == [readable |-> TRUE, text |-> text]
Unreadable == [readable |-> FALSE, text |-> <<>>]

Injective(s) == \A i, j \in 1..Len(s) : s[i] = s[j] => i = j

SeqsUpTo(S, n) == UNION {[1..k -> S] : k \in 0..n}

\* the iteration orders a set of strings can have
Orders(S) == {o \in [1..Cardinality(S) -> S] : Injective(o)}

NoPath == <<>>
NoModule == <<>>

----------------------------------------------------------------------------
(* build_dependency_graph as a state machine *)

Init ==
    /\ files \in {fs \in SeqsUpTo(FilePool, MaxFiles) : Injective(fs)}
    /\ contents \in
         {c \in [1..Len(files) ->
                    {Unreadable} \cup {Readable(t) : t \in AllTexts}] :
            \A i \in 1..Len(files) :
               c[i].readable => c[i].text \in TextsFor(files[i])}
    /\ nodes = {}
    /\ nodeOrder = <<>>
    /\ edges = <<>>
    /\ circular = <<>>
    /\ pc = "nodes"
    /\ fi = 1
    /\ run = 1
    /\ prevEdges = <<>>
    /\ pathA = NoPath
    /\ pathB = NoPath
    /\ modA = NoModule
    /\ modB = NoModule
    /\ maxNodes = 0
    /\ diagram = NoDiagram
    /\ prevDiagram = NoDiagram
    /\ report = NoReport
    /\ srcPath = NoPath
    /\ srcText = <<>>
    /\ refs = <<>>

\* the node loop with a file outside the scan root passed over
AddNodeSkippingOutside ==
    /\ pc = "nodes"
    /\ fi <= Len(files)
    /\ nodes' = IF IsUnder(files[fi], ScanRoot)
                THEN nodes \cup {normalize_module_name(files[fi], ScanRoot)}
                ELSE nodes
    /\ fi' = fi + 1
    /\ UNCHANGED <<files, contents, nodeOrder, edges, circular, pc, run,
                   prevEdges, idVars, outVars, exVars>>

\* the node loop refusing a Module identifier that is already a node
AddNodeRejectingDuplicates ==
    /\ pc = "nodes"
    /\ fi <= Len(files)
    /\ IF /\ IsUnder(files[fi], ScanRoot)
          /\ normalize_module_name(files[fi], ScanRoot) \notin nodes
       THEN /\ nodes' = nodes \cup {normalize_module_name(files[fi], ScanRoot)}
            /\ fi' = fi + 1
            /\ pc' = pc
       ELSE /\ pc' = "failed"
            /\ UNCHANGED <<nodes, fi>>
    /\ UNCHANGED <<files, contents, nodeOrder, edges, circular, run,
                   prevEdges, idVars, outVars, exVars>>

\* one iteration of the loop of lines 74-77
AddNode ==
    /\ pc = "nodes"
    /\ fi <= Len(files)
    /\ IF IsUnder(files[fi], ScanRoot)
       THEN /\ nodes' = nodes \cup {normalize_module_name(files[fi], ScanRoot)}
            /\ fi' = fi + 1
            /\ pc' = pc
       ELSE /\ pc' = "failed"
            /\ UNCHANGED <<nodes, fi>>
    /\ UNCHANGED <<files, contents, nodeOrder, edges, circular, run,
                   prevEdges, idVars, outVars, exVars>>

\* the node loop is over; from here on the set is iterated in one order
BeginEdges ==
    /\ pc = "nodes"
    /\ fi > Len(files)
    /\ nodeOrder' \in Orders(nodes)
    /\ pc' = "edges"
    /\ fi' = 1
    /\ UNCHANGED <<files, contents, nodes, edges, circular, run, prevEdges,
                   idVars, outVars, exVars>>

\* the edge loop without the try/except around the read
ProcessFileRaising ==
    /\ pc = "edges"
    /\ fi <= Len(files)
    /\ IF contents[fi].readable
       THEN /\ edges' = edges
                   \o FileEdges(normalize_module_name(files[fi], ScanRoot),
                                ExtractImports(files[fi], contents[fi].text),
                                nodeOrder)
            /\ fi' = fi + 1
            /\ pc' = pc
       ELSE /\ pc' = "failed"
            /\ UNCHANGED <<edges, fi>>
    /\ UNCHANGED <<files, contents, nodes, nodeOrder, circular, run,
                   prevEdges, idVars, outVars, exVars>>

\* the file that module_map holds for the node at position k of the order
FileOfNode(k) ==
    IF k <= Len(nodeOrder)
    THEN CHOOSE i \in 1..Len(files) :
            /\ normalize_module_name(files[i], ScanRoot) = nodeOrder[k]
            /\ \A j \in (i + 1)..Len(files) :
                  normalize_module_name(files[j], ScanRoot) # nodeOrder[k]
    ELSE k

\* the edge loop run over the node set and module_map, not over files
ProcessFileInNodeOrder ==
    /\ pc = "edges"
    /\ fi <= Len(files)
    /\ edges' =
         IF contents[FileOfNode(fi)].readable
         THEN edges
                \o FileEdges(
                     normalize_module_name(files[FileOfNode(fi)], ScanRoot),
                     ExtractImports(files[FileOfNode(fi)],
                                    contents[FileOfNode(fi)].text),
                     nodeOrder)
         ELSE edges
    /\ fi' = fi + 1
    /\ UNCHANGED <<files, contents, nodes, nodeOrder, circular, pc, run,
                   prevEdges, idVars, outVars, exVars>>

\* es with each edge of more appended unless it is already there
RECURSIVE AppendNew(_, _)
AppendNew(es, more) ==
    IF more = <<>> THEN es
    ELSE IF InSeq(Head(more), es) THEN AppendNew(es, Tail(more))
    ELSE AppendNew(Append(es, Head(more)), Tail(more))

\* the edge loop appending an edge only when it is not yet in the list
ProcessFileDeduplicating ==
    /\ pc = "edges"
    /\ fi <= Len(files)
    /\ edges' =
         IF contents[fi].readable
         THEN AppendNew(edges,
                        FileEdges(normalize_module_name(files[fi], ScanRoot),
                                  ExtractImports(files[fi], contents[fi].text),
                                  nodeOrder))
         ELSE edges
    /\ fi' = fi + 1
    /\ UNCHANGED <<files, contents, nodes, nodeOrder, circular, pc, run,
                   prevEdges, idVars, outVars, exVars>>

\* the nodes of order that are Modules of the files read so far
RECURSIVE SeenNodes(_, _)
SeenNodes(order, upto) ==
    IF order = <<>> THEN <<>>
    ELSE (IF \E j \in 1..upto :
               normalize_module_name(files[j], ScanRoot) = Head(order)
          THEN <<Head(order)>> ELSE <<>>)
            \o SeenNodes(Tail(order), upto)

\* one loop doing both: a file's references are resolved against the
\* Modules of the files up to it only
ProcessFileAgainstSeenNodes ==
    /\ pc = "edges"
    /\ fi <= Len(files)
    /\ edges' =
         IF contents[fi].readable
         THEN edges \o FileEdges(normalize_module_name(files[fi], ScanRoot),
                                 ExtractImports(files[fi], contents[fi].text),
                                 SeenNodes(nodeOrder, fi))
         ELSE edges
    /\ fi' = fi + 1
    /\ UNCHANGED <<files, contents, nodes, nodeOrder, circular, pc, run,
                   prevEdges, idVars, outVars, exVars>>

\* one iteration of the loop of lines 80-110
ProcessFile ==
    /\ pc = "edges"
    /\ fi <= Len(files)
    /\ edges' =
         IF contents[fi].readable
         THEN edges \o FileEdges(normalize_module_name(files[fi], ScanRoot),
                                 ExtractImports(files[fi], contents[fi].text),
                                 nodeOrder)
         ELSE edges
    /\ fi' = fi + 1
    /\ UNCHANGED <<files, contents, nodes, nodeOrder, circular, pc, run,
                   prevEdges, idVars, outVars, exVars>>

\* lines 112-115
Detect ==
    /\ pc = "edges"
    /\ fi > Len(files)
    /\ circular' = detect_circular_dependencies(edges)
    /\ pc' = "done"
    /\ UNCHANGED <<files, contents, nodes, nodeOrder, edges, fi, run,
                   prevEdges, idVars, outVars, exVars>>

\* a second call of build on the same files, contents and root
Rebuild ==
    /\ pc = "done"
    /\ run = 1
    /\ run' = 2
    /\ prevEdges' = edges
    /\ nodes' = {}
    /\ nodeOrder' = <<>>
    /\ edges' = <<>>
    /\ circular' = <<>>
    /\ pc' = "nodes"
    /\ fi' = 1
    /\ maxNodes' = 0
    /\ diagram' = NoDiagram
    /\ prevDiagram' = NoDiagram
    /\ report' = NoReport
    /\ UNCHANGED <<files, contents, idVars, exVars>>

\* a rendering that cuts the graph's own node collection to the selection
RenderTruncatingGraph ==
    /\ pc = "done"
    /\ \E m \in 0..MaxShown :
          /\ maxNodes' = m
          /\ diagram' = generate_mermaid(nodeOrder, edges, circular, m)
          /\ nodeOrder' = SelectedNodes(nodeOrder, m)
          /\ nodes' = {SelectedNodes(nodeOrder, m)[k] :
                          k \in 1..Len(SelectedNodes(nodeOrder, m))}
    /\ pc' = "rendered"
    /\ UNCHANGED <<files, contents, edges, circular, fi,
                   run, prevEdges, prevDiagram, report, idVars, exVars>>

\* generate_mermaid called on the built graph with some max_nodes >= 0
Render ==
    /\ pc = "done"
    /\ \E m \in 0..MaxShown :
          /\ maxNodes' = m
          /\ diagram' = generate_mermaid(nodeOrder, edges, circular, m)
    /\ pc' = "rendered"
    /\ UNCHANGED <<files, contents, nodes, nodeOrder, edges, circular, fi,
                   run, prevEdges, prevDiagram, report, idVars, exVars>>

\* generate_mermaid called a second time on the same graph with the same
\* max_nodes; the output of the first call is kept for comparison
RenderAgain ==
    /\ pc = "rendered"
    /\ prevDiagram = NoDiagram
    /\ prevDiagram' = diagram
    /\ diagram' = generate_mermaid(nodeOrder, edges, circular, maxNodes)
    /\ UNCHANGED <<files, contents, nodes, nodeOrder, edges, circular, pc,
                   fi, run, prevEdges, maxNodes, report, idVars, exVars>>

\* generate_dependency_report called on the built graph
Report ==
    /\ pc = "done"
    /\ report' = generate_dependency_report(nodes, nodeOrder, edges, circular)
    /\ pc' = "reported"
    /\ UNCHANGED <<files, contents, nodes, nodeOrder, edges, circular, fi,
                   run, prevEdges, maxNodes, diagram, prevDiagram, idVars,
                   exVars>>

Next ==
    \/ AddNode
    \/ BeginEdges
    \/ ProcessFile
    \/ Detect
    \/ Rebuild
    \/ Render
    \/ Report

Spec == Init /\ [][Next]_vars

----------------------------------------------------------------------------
(* detect_circular_dependencies on its own: the edge list is any list of   *)
(* edges between three modules, as build leaves it (no self-edges)         *)

DetectNodes == {ChA, ChB, ChC}

DetectPairs == {<<a, b>> : a, b \in DetectNodes} \ {<<a, a>> : a \in DetectNodes}

InitDetect ==
    /\ files = <<>>
    /\ contents = <<>>
    /\ nodes = DetectNodes
    /\ nodeOrder = <<ChA, ChB, ChC>>
    /\ edges \in SeqsUpTo(DetectPairs, MaxEdges)
    /\ circular = <<>>
    /\ pc = "edges"
    /\ fi = 1
    /\ run = 1
    /\ prevEdges = <<>>
    /\ pathA = NoPath
    /\ pathB = NoPath
    /\ modA = NoModule
    /\ modB = NoModule
    /\ maxNodes = 0
    /\ diagram = NoDiagram
    /\ prevDiagram = NoDiagram
    /\ report = NoReport
    /\ srcPath = NoPath
    /\ srcText = <<>>
    /\ refs = <<>>

NextDetect == Detect

SpecDetect == InitDetect /\ [][NextDetect]_vars

----------------------------------------------------------------------------
(* generate_mermaid and generate_dependency_report on their own: the graph *)
(* is any small graph on three modules, a ring of RingSize modules with    *)
(* two chords, or the complete graph on five modules                       *)

Letters ==
    <<"a", "b", "c", "d", "e", "f", "g", "h", "i", "j", "k", "l", "m", "n">>

Rev(s) == [i \in 1..Len(s) |-> s[Len(s) + 1 - i]]

RingNodes == [i \in 1..RingSize |-> <<Letters[i]>>]

RingEdges ==
    [i \in 1..RingSize |-> <<RingNodes[i], RingNodes[(i % RingSize) + 1]>>]
        \o << <<RingNodes[1], RingNodes[3]>>, <<RingNodes[2], RingNodes[3]>> >>

FiveNodes == [i \in 1..5 |-> <<Letters[i]>>]

\* every ordered pair of distinct modules of FiveNodes, source by source
CompleteEdges ==
    [k \in 1..20 |->
        <<FiveNodes[((k - 1) \div 4) + 1],
          FiveNodes[IF ((k - 1) % 4) + 1 < ((k - 1) \div 4) + 1
                    THEN ((k - 1) % 4) + 1
                    ELSE ((k - 1) % 4) + 2]>>]

InitRender ==
    /\ files = <<>>
    /\ contents = <<>>
    /\ \/ /\ nodeOrder \in Orders(DetectNodes)
          /\ edges \in SeqsUpTo(DetectPairs, MaxEdges)
       \/ /\ nodeOrder \in {RingNodes, Rev(RingNodes)}
          /\ edges = RingEdges
       \/ /\ nodeOrder \in {FiveNodes, Rev(FiveNodes)}
          /\ edges = CompleteEdges
    /\ nodes = {nodeOrder[i] : i \in 1..Len(nodeOrder)}
    /\ circular = detect_circular_dependencies(edges)
    /\ pc = "done"
    /\ fi = 1
    /\ run = 1
    /\ prevEdges = <<>>
    /\ pathA = NoPath
    /\ pathB = NoPath
    /\ modA = NoModule
    /\ modB = NoModule
    /\ maxNodes = 0
    /\ diagram = NoDiagram
    /\ prevDiagram = NoDiagram
    /\ report = NoReport
    /\ srcPath = NoPath
    /\ srcText = <<>>
    /\ refs = <<>>

NextRender ==
    \/ Render
    \/ RenderAgain
    \/ Report

SpecRender == InitRender /\ [][NextRender]_vars

----------------------------------------------------------------------------
(* The import extractors on their own: a file of one language whose text   *)
(* is a sequence of import statements of that language                     *)

PyStmts ==
    { Stmt("py_from", ChA),
      Stmt("py_from", <<"p", ".">> \o ChA),
      Stmt("py_import", ChB),
      Stmt("py_import", ChA \o <<",">> \o ChB) }

RsStmts ==
    { Stmt("rs_use", CratePrefix \o ChA \o <<":", ":">> \o ChB),
      Stmt("rs_use", ChB),
      Stmt("rs_mod", ChC) }

JsStmts ==
    { Stmt("js_from", <<".", "/">> \o ChA),
      Stmt("js_from", AtSign \o <<"x">>),
      Stmt("js_from", NodeModules \o <<"/", "x">>),
      Stmt("js_bare", <<".", "/">> \o ChC),
      Stmt("js_require", <<".", "/">> \o ChB),
      Stmt("js_require", NodeModules \o <<"/", "x">>) }

ExPaths ==
    { << <<"r">>, ChA \o DotPy >>,
      << <<"r">>, ChB \o DotRs >>,
      << <<"r">>, ChC \o DotTs >>,
      << <<"r">>, <<"d">> >> }

StmtsFor(path) ==
    IF Suffix(Last(path)) = DotRs THEN RsStmts
    ELSE IF Suffix(Last(path)) = DotTs THEN JsStmts
    ELSE PyStmts

InitExtract ==
    /\ files = <<>>
    /\ contents = <<>>
    /\ nodes = {}
    /\ nodeOrder = <<>>
    /\ edges = <<>>
    /\ circular = <<>>
    /\ pc = "extract"
    /\ fi = 1
    /\ run = 1
    /\ prevEdges = <<>>
    /\ pathA = NoPath
    /\ pathB = NoPath
    /\ modA = NoModule
    /\ modB = NoModule
    /\ maxNodes = 0
    /\ diagram = NoDiagram
    /\ prevDiagram = NoDiagram
    /\ report = NoReport
    /\ srcPath \in ExPaths
    /\ srcText \in SeqsUpTo(StmtsFor(srcPath), MaxStmts)
    /\ refs = <<>>

\* lines 89-97 on one file
Extract ==
    /\ pc = "extract"
    /\ refs' = ExtractImports(srcPath, srcText)
    /\ pc' = "extracted"
    /\ UNCHANGED <<files, contents, nodes, nodeOrder, edges, circular, fi,
                   run, prevEdges, idVars, outVars, srcPath, srcText>>

NextExtract == Extract

SpecExtract == InitExtract /\ [][NextExtract]_vars

----------------------------------------------------------------------------
(* normalize_module_name on its own: two paths under the scan root         *)

DirNames == {<<"s">>, <<"u">>}

Stems == {NameMod, NameIndex, NameInit, NameMain, ChA, <<"s">>, RootSentinel}

Exts == {DotPy, DotRs, DotTs, DotJs, <<>>}

IdPool ==
    {ScanRoot \o d \o <<st \o e>> :
        d \in SeqsUpTo(DirNames, MaxDepth), st \in Stems, e \in Exts}

InitIdentify ==
    /\ files = <<>>
    /\ contents = <<>>
    /\ nodes = {}
    /\ nodeOrder = <<>>
    /\ edges = <<>>
    /\ circular = <<>>
    /\ pc = "identify"
    /\ fi = 1
    /\ run = 1
    /\ prevEdges = <<>>
    /\ pathA \in IdPool
    /\ pathB \in IdPool
    /\ modA = NoModule
    /\ modB = NoModule
    /\ maxNodes = 0
    /\ diagram = NoDiagram
    /\ prevDiagram = NoDiagram
    /\ report = NoReport
    /\ srcPath = NoPath
    /\ srcText = <<>>
    /\ refs = <<>>

Identify ==
    /\ pc = "identify"
    /\ modA' = normalize_module_name(pathA, ScanRoot)
    /\ modB' = normalize_module_name(pathB, ScanRoot)
    /\ pc' = "identified"
    /\ UNCHANGED <<files, contents, nodes, nodeOrder, edges, circular, fi,
                   run, prevEdges, pathA, pathB, outVars, exVars>>

NextIdentify == Identify

SpecIdentify == InitIdentify /\ [][NextIdentify]_vars

----------------------------------------------------------------------------
(* Properties *)

ModuleOf(i) == normalize_module_name(files[i], ScanRoot)

ImportsOf(i) ==
    IF contents[i].readable
    THEN ExtractImports(files[i], contents[i].text)
    ELSE <<>>

Reverse(e) == <<e[2], e[1]>>

\* C1: no edge of the graph has its source equal to its target, also when
\* a file holds a reference whose first matching node is its own Module.
C1_NoSelfEdges ==
    \A k \in 1..Len(edges) : edges[k][1] # edges[k][2]

\* a finished build in which some reference resolved to the file's own Module
C1_SelfReferenceResolved ==
    /\ pc = "done"
    /\ \E i \in 1..Len(files) :
          \E r \in 1..Len(ImportsOf(i)) :
             LET k == FirstMatch(ReplaceDots(ImportsOf(i)[r]), nodeOrder)
             IN  k # 0 /\ nodeOrder[k] = ModuleOf(i)

\* C2: detectCircular reports the unordered pair {A,B} if and only if the
\* edge list holds both (A,B) and (B,A); a node without a reciprocal edge
\* is in no reported pair.
C2_PairIffReciprocal ==
    pc = "done" =>
        \A a, b \in nodes :
            (InSeq(<<a, b>>, circular) \/ InSeq(<<b, a>>, circular))
                <=> (InSeq(<<a, b>>, edges) /\ InSeq(<<b, a>>, edges))

\* edges [(A,B),(B,A),(A,C)] give exactly the pair (A,B)
C2_ExampleDetected ==
    /\ pc = "done"
    /\ edges = << <<ChA, ChB>>, <<ChB, ChA>>, <<ChA, ChC>> >>
    /\ circular = << <<ChA, ChB>> >>

\* C3: detectCircular records each unordered reciprocal pair once: the
\* output never holds the same pair twice, in either orientation, also
\* when the edge list repeats an edge record.
C3_EachPairOnce ==
    pc = "done" =>
        \A i, j \in 1..Len(circular) :
            i # j => /\ circular[i] # circular[j]
                     /\ circular[i] # Reverse(circular[j])

\* C4: an edge list without a pair of directly reciprocal edges gives an
\* empty result, also when it holds a directed cycle of length 3.
C4_LongCyclesNotDetected ==
    (pc = "done" /\ \A k \in 1..Len(edges) : ~InSeq(Reverse(edges[k]), edges))
        => circular = <<>>

\* the triangle [(A,B),(B,C),(C,A)] has been examined
C4_TriangleExamined ==
    /\ pc = "done"
    /\ edges = << <<ChA, ChB>>, <<ChB, ChC>>, <<ChC, ChA>> >>
    /\ circular = <<>>

----------------------------------------------------------------------------
(* Properties of the Module Identity Resolver *)

\* the extensions build_dependency_graph extracts imports for
RecognizedExts ==
    {DotPy, DotRs, DotJs, DotJs \o <<"x">>, DotTs, DotTs \o <<"x">>}

\* the final segment without its recognized source extension
StemOf(path) ==
    IF Suffix(Last(path)) \in RecognizedExts
    THEN RSplitDot(Last(path))
    ELSE Last(path)

\* the Module of the directory that holds the file
ParentModule(path) ==
    IF Len(RelParts(path, ScanRoot)) = 1 THEN RootSentinel
    ELSE JoinSlash(SubSeq(path, Len(ScanRoot) + 1, Len(path) - 1))

\* C5: for every recognized source language, a file whose final segment is
\* mod, index, __init__ or main once its extension is stripped gets the
\* Module of its parent directory (src/utils/index.ts gives src/utils).
C5_IndexFileIsParentModule ==
    (pc = "identified" /\ StemOf(pathA) \in IndexNames)
        => modA = ParentModule(pathA)

\* C6: a file directly under the scan root gets the sentinel root when its
\* basename without extension is mod, index, __init__ or main, and its
\* basename without extension otherwise; the result is never empty.
C6_RootLevelFiles ==
    pc = "identified" =>
        /\ modA # <<>>
        /\ Len(RelParts(pathA, ScanRoot)) = 1 =>
              IF StemOf(pathA) \in IndexNames
              THEN modA = RootSentinel
              ELSE modA = StemOf(pathA)

\* the final segment without a .py or .rs ending
PyRsStem(name) ==
    IF EndsWith(name, DotPy) \/ EndsWith(name, DotRs)
    THEN SubSeq(name, 1, Len(name) - 3)
    ELSE name

StrippedParts(path) ==
    [RelParts(path, ScanRoot) EXCEPT
        ![Len(path) - Len(ScanRoot)] = PyRsStem(Last(path))]

IndexDropped(path) == PyRsStem(Last(path)) \in IndexNames

\* C7 as stated: two distinct files get the same Module only when one of
\* them had a trailing index-like segment dropped.
C7_InjectiveExceptIndex ==
    (pc = "identified" /\ pathA # pathB /\ modA = modB)
        => (IndexDropped(pathA) \/ IndexDropped(pathB))

\* C7 amended: two distinct files get the same Module only when one of
\* them had a trailing index-like segment dropped, or when the two paths
\* differ only in a stripped .py/.rs extension of the final segment.
C7_CollisionsByIndexOrExtension ==
    (pc = "identified" /\ pathA # pathB /\ modA = modB)
        => \/ IndexDropped(pathA)
           \/ IndexDropped(pathB)
           \/ StrippedParts(pathA) = StrippedParts(pathB)

\* two files collapse although neither is an index file
C7_ExtensionCollision ==
    /\ pc = "identified"
    /\ pathA # pathB
    /\ modA = modB
    /\ ~IndexDropped(pathA)
    /\ ~IndexDropped(pathB)

----------------------------------------------------------------------------
(* Properties of the Graph Builder *)

\* the edges of files 1..i when an unreadable file counts as a file
\* without references
RECURSIVE EdgesUpTo(_)
EdgesUpTo(i) ==
    IF i = 0 THEN <<>>
    ELSE EdgesUpTo(i - 1) \o FileEdges(ModuleOf(i), ImportsOf(i), nodeOrder)

AllUnderRoot == \A i \in 1..Len(files) : IsUnder(files[i], ScanRoot)

C9_PreconditionViolationFails ==
    pc = "done" => (files # <<>> /\ AllUnderRoot)

\* C9 amended: build called with a file outside the scan root fails and
\* returns no Graph; build called with an empty file list returns the
\* empty Graph.
C9_OutsideRootFails ==
    /\ pc \in {"edges", "done", "rendered", "reported"} => AllUnderRoot
    /\ (pc = "done" /\ files = <<>>) =>
          (nodes = {} /\ edges = <<>> /\ circular = <<>>)

\* build has failed on a file outside the scan root
C9_FailedOutsideRoot ==
    /\ pc = "failed"
    /\ ~AllUnderRoot

\* no reference of any file is matched by two nodes
NoAmbiguousReference ==
    \A i \in 1..Len(files) :
        \A r \in 1..Len(ImportsOf(i)) :
            Cardinality({n \in nodes :
                            Matches(n, ReplaceDots(ImportsOf(i)[r]))}) <= 1

\* C10 as stated: a second build on the same files, contents and root
\* gives the same edge list, whatever the iteration order of the node set.
C10_EdgeListDeterministic ==
    (run = 2 /\ pc = "done") => edges = prevEdges

\* C10 amended: a second build on the same files, contents and root gives
\* the same edge list whenever no reference is matched by more than one
\* node; a reference matched by several nodes resolves to the first of
\* them in the node set's iteration order.
C10_DeterministicWhenUnambiguous ==
    (run = 2 /\ pc = "done" /\ NoAmbiguousReference) => edges = prevEdges

\* a second build without ambiguous references has produced two edges
C10_SecondBuildDone ==
    /\ run = 2
    /\ pc = "done"
    /\ NoAmbiguousReference
    /\ Len(edges) >= 2
    /\ edges[1] # edges[2]

----------------------------------------------------------------------------
(* Properties of the Connectivity Reporter *)

LinesOfKind(kind) == {i \in 1..Len(diagram) : diagram[i].kind = kind}

DeclaredLabels == {diagram[i].label : i \in LinesOfKind("decl")}

\* C11: renderDiagram declares exactly min(maxNodes, number of nodes)
\* nodes, and every connection line joins two declared nodes that an edge
\* of the graph joins.
C11_DiagramTruncated ==
    diagram # NoDiagram =>
        /\ Cardinality(LinesOfKind("decl")) = Min(maxNodes, Cardinality(nodes))
        /\ \A i, j \in LinesOfKind("decl") :
              i # j => diagram[i].id # diagram[j].id
        /\ \A c \in LinesOfKind("conn") :
              \E i, j \in LinesOfKind("decl") :
                 /\ diagram[i].id = diagram[c].src
                 /\ diagram[j].id = diagram[c].dst
                 /\ InSeq(<<diagram[i].label, diagram[j].label>>, edges)

\* the complete graph on five modules rendered with maxNodes = 2
C11_FiveNodesCutToTwo ==
    /\ diagram # NoDiagram
    /\ maxNodes = 2
    /\ Cardinality(nodes) = 5
    /\ edges = CompleteEdges
    /\ Cardinality(LinesOfKind("decl")) = 2
    /\ Cardinality(LinesOfKind("conn")) = 2

\* C12: for each pair (source, target) of selected nodes, the diagram has
\* exactly one connection line when the pair is an edge, however often it
\* is repeated in the edge list, and none otherwise.
C12_OneLinePerDistinctEdge ==
    diagram # NoDiagram =>
        \A i, j \in LinesOfKind("decl") :
            Cardinality({c \in LinesOfKind("conn") :
                            /\ diagram[c].src = diagram[i].id
                            /\ diagram[c].dst = diagram[j].id})
                = IF InSeq(<<diagram[i].label, diagram[j].label>>, edges)
                  THEN 1 ELSE 0

\* a diagram of a graph that repeats an edge between two selected nodes
C12_RepeatedEdgeRendered ==
    /\ diagram # NoDiagram
    /\ \E k, l \in 1..Len(edges) :
          /\ k # l
          /\ edges[k] = edges[l]
          /\ edges[k][1] \in DeclaredLabels
          /\ edges[k][2] \in DeclaredLabels

\* C13 as stated: the number of marker lines equals the number of
\* circular pairs attached to the graph, for every maxNodes.
C13_MarkerPerCircularPair ==
    diagram # NoDiagram =>
        Cardinality(LinesOfKind("style")) = Len(circular)

\* C13 amended: the number of marker lines equals the number of circular
\* pairs of the graph whose two modules are both among the selected nodes.
C13_MarkerPerSelectedPair ==
    diagram # NoDiagram =>
        Cardinality(LinesOfKind("style"))
            = Cardinality({k \in 1..Len(circular) :
                              /\ circular[k][1] \in DeclaredLabels
                              /\ circular[k][2] \in DeclaredLabels})

\* a diagram that marks one circular pair and leaves another unmarked
C13_PairCutByTruncation ==
    /\ diagram # NoDiagram
    /\ Len(circular) > 1
    /\ Cardinality(LinesOfKind("style")) = 1

ItemsOf(dict, n) == {k \in 1..Len(dict) : dict[k][1] = n}

\* C14: every node is a key of incoming and of outgoing exactly once;
\* incoming[M] is the number of edge records with target M and outgoing[M]
\* the number with source M, 0 included.
C14_ConnectivityCounts ==
    report.made =>
        \A n \in nodes :
            /\ Cardinality(ItemsOf(report.incoming, n)) = 1
            /\ Cardinality(ItemsOf(report.outgoing, n)) = 1
            /\ \A k \in ItemsOf(report.incoming, n) :
                  report.incoming[k][2]
                     = Cardinality({e \in 1..Len(edges) : edges[e][2] = n})
            /\ \A k \in ItemsOf(report.outgoing, n) :
                  report.outgoing[k][2]
                     = Cardinality({e \in 1..Len(edges) : edges[e][1] = n})

\* edges [(A,B),(A,C),(B,C)] counted: outgoing A=2, C=0; incoming A=0, C=2
C14_ExampleCounted ==
    /\ report.made
    /\ edges = << <<ChA, ChB>>, <<ChA, ChC>>, <<ChB, ChC>> >>
    /\ \E k \in ItemsOf(report.outgoing, ChA) : report.outgoing[k][2] = 2
    /\ \E k \in ItemsOf(report.outgoing, ChC) : report.outgoing[k][2] = 0
    /\ \E k \in ItemsOf(report.incoming, ChA) : report.incoming[k][2] = 0
    /\ \E k \in ItemsOf(report.incoming, ChC) : report.incoming[k][2] = 2

\* a ranked list of a count dict: min(10, positive keys) entries, all of
\* positive count, non-increasing, and no key left out has a greater
\* count than a listed one
RankedListOf(list, dict) ==
    /\ Len(list) = Min(10, Cardinality({k \in 1..Len(dict) : dict[k][2] > 0}))
    /\ \A i \in 1..Len(list) : list[i][2] > 0 /\ InSeq(list[i], dict)
    /\ \A i, j \in 1..Len(list) :
          /\ i < j => list[i][2] >= list[j][2]
          /\ i # j => list[i][1] # list[j][1]
    /\ \A k \in 1..Len(dict) :
          ~InSeq(dict[k], list) =>
              \A i \in 1..Len(list) : dict[k][2] <= list[i][2]

\* C15: each ranked list of the report has exactly min(10, number of nodes
\* with a positive count) entries, lists only nodes with count > 0, is in
\* non-increasing count order, and omits no node whose count is greater
\* than that of a listed node.
C15_RankedLists ==
    report.made =>
        /\ RankedListOf(report.mostImported, report.incoming)
        /\ RankedListOf(report.mostImporting, report.outgoing)

\* a report on more than ten modules with imports, cut to ten entries
C15_ListCapped ==
    /\ report.made
    /\ Cardinality({k \in 1..Len(report.incoming) :
                       report.incoming[k][2] > 0}) > 10
    /\ Len(report.mostImported) = 10
    /\ report.mostImported[1][2] > report.mostImported[10][2]

ModulesOfFiles == {ModuleOf(i) : i \in 1..Len(files)}

\* C16: after build the node set is exactly the set of Module identifiers
\* of the files; files with the same identifier merge into one node
\* without error, and the reported module count is the number of distinct
\* identifiers.
C16_NodesAreFileModules ==
    /\ pc = "failed" => ~AllUnderRoot
    /\ pc \in {"edges", "done", "rendered", "reported"}
          => nodes = ModulesOfFiles
    /\ report.made => report.modules = Cardinality(ModulesOfFiles)

\* a report on two files that share one Module identifier
C16_MergedFilesReported ==
    /\ report.made
    /\ Len(files) = 2
    /\ ModuleOf(1) = ModuleOf(2)
    /\ report.modules = 1

----------------------------------------------------------------------------
(* Properties of reference resolution *)

\* a node N matches a normalized reference when N ends with the reference
\* or the reference ends with the final path segment of N
NodeMatches(n, ref) == EndsWith(n, ref) \/ EndsWith(ref, SplitLast(n))

MatchingPositions(ref) ==
    LET normalized == ReplaceDots(ref)
    IN  {k \in 1..Len(nodeOrder) : NodeMatches(nodeOrder[k], normalized)}

\* the edge of one reference of file i, a sequence of length 0 or 1: none
\* when no node matches or the first matching node is the file's own Module
RefEdge(i, ref) ==
    LET positions == MatchingPositions(ref)
        own == ModuleOf(i)
    IN  IF positions = {} THEN <<>>
        ELSE LET k == CHOOSE m \in positions : \A o \in positions : m <= o
             IN  IF nodeOrder[k] = own THEN <<>>
                 ELSE << <<own, nodeOrder[k]>> >>

\* the edges of references 1..r of file i
RECURSIVE RefEdgesOfFile(_, _)
RefEdgesOfFile(i, r) ==
    IF r = 0 THEN <<>>
    ELSE RefEdgesOfFile(i, r - 1) \o RefEdge(i, ImportsOf(i)[r])

RECURSIVE RefEdgesUpTo(_)
RefEdgesUpTo(i) ==
    IF i = 0 THEN <<>>
    ELSE RefEdgesUpTo(i - 1) \o RefEdgesOfFile(i, Len(ImportsOf(i)))

\* C17: each reference yields at most one edge, and its target is the
\* first node in iteration order that ends with the normalized reference
\* or whose final segment ends the normalized reference; nodes that match
\* later in the order are never used.
C17_FirstMatchOnly ==
    pc = "done" => edges = RefEdgesUpTo(Len(files))

\* a reference matched by two nodes has given an edge to the first of them
C17_AmbiguousReferenceResolved ==
    /\ pc = "done"
    /\ \E i \in 1..Len(files) :
          \E r \in 1..Len(ImportsOf(i)) :
             /\ Cardinality(MatchingPositions(ImportsOf(i)[r])) >= 2
             /\ RefEdge(i, ImportsOf(i)[r]) # <<>>
             /\ InSeq(RefEdge(i, ImportsOf(i)[r])[1], edges)

\* C18: the edge list is the concatenation, in file-list order, of each
\* file's edges in that file's reference order, one record per reference
\* that resolves to another module: every step of the edge loop appends
\* the edges of the current file, repeated ones included, after those of
\* the files before it.
C18_EdgesInScanOrder ==
    /\ [](pc = "nodes" => edges = <<>>)
    /\ [][(pc = "edges" /\ fi <= Len(files))
            => edges' = edges \o RefEdgesOfFile(fi, Len(ImportsOf(fi)))]_vars

\* one file gave the same edge twice and a later file an edge after them
C18_RepeatedEdgeThenLaterFile ==
    /\ pc = "done"
    /\ Len(edges) = 3
    /\ edges[1] = edges[2]
    /\ edges[3][1] # edges[1][1]

----------------------------------------------------------------------------
(* Properties of the Import Extractor *)

FirstPassForms == {"py_from", "rs_use", "js_from"}

SecondPassForms == {"py_import", "rs_mod", "js_require"}

LangForms(path) ==
    IF Suffix(Last(path)) = DotPy THEN {"py_from", "py_import"}
    ELSE IF Suffix(Last(path)) = DotRs THEN {"rs_use", "rs_mod"}
    ELSE IF Suffix(Last(path)) \in {DotJs, DotTs}
         THEN {"js_from", "js_bare", "js_require"}
    ELSE {}

\* the reference one statement gives, as a sequence of length 0 or 1
CaptureOf(st) ==
    IF st.form = "py_from" THEN <<st.arg>>
    ELSE IF st.form = "py_import" THEN <<PyImportToken(st.arg)>>
    ELSE IF st.form = "rs_use" /\ RsUseCapture(st.arg) # <<>>
         THEN <<RsUseCapture(st.arg)>>
    ELSE IF st.form = "rs_mod" /\ RsModCapture(st.arg) # <<>>
         THEN <<RsModCapture(st.arg)>>
    ELSE IF st.form = "js_from" /\ JsFromKeep(JsCapture(st.arg))
         THEN <<JsCapture(st.arg)>>
    ELSE IF st.form = "js_require" /\ JsRequireKeep(JsCapture(st.arg))
         THEN <<JsCapture(st.arg)>>
    ELSE <<>>

\* the references of the statements of the given forms, in text order
RECURSIVE InTextOrder(_, _)
InTextOrder(text, forms) ==
    IF text = <<>> THEN <<>>
    ELSE (IF Head(text).form \in forms THEN CaptureOf(Head(text)) ELSE <<>>)
            \o InTextOrder(Tail(text), forms)

\* C19 as stated: the references come in the order in which their
\* statements occur in the text, whatever the statement form.
C19_ReferencesInTextOrder ==
    pc = "extracted" => refs = InTextOrder(srcText, LangForms(srcPath))

\* C19 amended: the references of the first statement form of the
\* language (from-import, use, import-from) come first, in text order,
\* then those of the second form (import, mod, require), in text order.
C19_TextOrderWithinEachForm ==
    pc = "extracted" =>
        refs = InTextOrder(srcText, LangForms(srcPath) \cap FirstPassForms)
                 \o InTextOrder(srcText, LangForms(srcPath) \cap SecondPassForms)

\* a text whose second statement gave the first reference
C19_LaterStatementFirst ==
    /\ pc = "extracted"
    /\ Len(srcText) = 2
    /\ Len(refs) = 2
    /\ srcText[1].form \in SecondPassForms
    /\ srcText[2].form \in FirstPassForms
    /\ refs[1] # refs[2]

\* a quoted path names an external package when its leading segment
\* starts with @ or is node_modules
ExternalPath(p) ==
    \/ StartsWith(SplitFirst(p, "/"), AtSign)
    \/ SplitFirst(p, "/") = NodeModules

Occurrences(s, x) == Cardinality({k \in 1..Len(s) : s[k] = x})

\* C20: in a file of the quoted-import language each statement of the
\* three forms (import-from, bare import, require) gives its quoted path
\* as a reference, except that an external path gives none.
C20_ThreeFormsCaptured ==
    (pc = "extracted" /\ Suffix(Last(srcPath)) \in {DotJs, DotTs}) =>
        \A k \in 1..Len(srcText) :
            Occurrences(refs, JsCapture(srcText[k].arg))
                = Cardinality({j \in 1..Len(srcText) :
                                  /\ JsCapture(srcText[j].arg)
                                        = JsCapture(srcText[k].arg)
                                  /\ ~ExternalPath(JsCapture(srcText[j].arg))})

\* the path of a use statement without a leading crate:: prefix
WholeUsePath(arg) ==
    IF StartsWith(arg, CratePrefix)
    THEN SubSeq(arg, Len(CratePrefix) + 1, Len(arg))
    ELSE arg

RECURSIVE UsePaths(_)
UsePaths(text) ==
    IF text = <<>> THEN <<>>
    ELSE (IF Head(text).form = "rs_use"
          THEN <<WholeUsePath(Head(text).arg)>> ELSE <<>>)
            \o UsePaths(Tail(text))

RECURSIVE ModNames(_)
ModNames(text) ==
    IF text = <<>> THEN <<>>
    ELSE (IF Head(text).form = "rs_mod" THEN <<Head(text).arg>> ELSE <<>>)
            \o ModNames(Tail(text))

\* C21: in a file of the use-statement language each use statement gives
\* its whole path without a leading crate:: prefix (use crate::a::b gives
\* a::b) and each mod declaration gives its name.
C21_WholeUsePathCaptured ==
    (pc = "extracted" /\ Suffix(Last(srcPath)) = DotRs) =>
        refs = UsePaths(srcText) \o ModNames(srcText)

----------------------------------------------------------------------------
(* Properties of the built graph *)

\* the references of file i that some node matches
MatchedRefs(i) ==
    {r \in 1..Len(ImportsOf(i)) : MatchingPositions(ImportsOf(i)[r]) # {}}

\* C22: every edge's source and target is a member of the node set, and
\* a reference that no node matches adds no edge and raises no error:
\* the step of its file appends at most one edge per matched reference
\* and goes on to the next file.
C22_EdgesBetweenNodes ==
    /\ [](pc \in {"edges", "done", "rendered", "reported"} =>
            \A k \in 1..Len(edges) :
                edges[k][1] \in nodes /\ edges[k][2] \in nodes)
    /\ [][(pc = "edges" /\ fi <= Len(files)) =>
            /\ pc' = "edges"
            /\ fi' = fi + 1
            /\ Len(edges') - Len(edges) <= Cardinality(MatchedRefs(fi))]_vars

\* a file with a reference that no node matches and one that gave an edge
C22_UnmatchedReferenceDropped ==
    /\ pc = "done"
    /\ \E i \in 1..Len(files) :
          /\ \E r \in 1..Len(ImportsOf(i)) :
                MatchingPositions(ImportsOf(i)[r]) = {}
          /\ \E k \in 1..Len(edges) : edges[k][1] = ModuleOf(i)

\* the references of file i whose first matching node in the iteration
\* order is the file's own Module
SelfFirstRefs(i) ==
    {r \in MatchedRefs(i) :
        \E k \in MatchingPositions(ImportsOf(i)[r]) :
           /\ \A j \in MatchingPositions(ImportsOf(i)[r]) : k <= j
           /\ nodeOrder[k] = ModuleOf(i)}

\* C23: a reference whose first matching node in iteration order is the
\* file's own Module contributes no edge, also when other nodes later in
\* the order match it: a file's step appends no more edges than the file
\* has matched references whose first match is another Module.
C23_SelfFirstMatchGivesNoEdge ==
    [][(pc = "edges" /\ fi <= Len(files)) =>
          Len(edges') - Len(edges)
              <= Cardinality(MatchedRefs(fi) \ SelfFirstRefs(fi))]_vars

\* a file whose reference matched its own Module first and another node
\* later has no outgoing edge
C23_LaterMatchIgnored ==
    /\ pc = "done"
    /\ \E i \in 1..Len(files) :
          /\ \E r \in SelfFirstRefs(i) :
                Cardinality(MatchingPositions(ImportsOf(i)[r])) >= 2
          /\ \A k \in 1..Len(edges) : edges[k][1] # ModuleOf(i)

----------------------------------------------------------------------------
(* Properties of the graph after detection *)

\* C24: rendering the diagram and computing the report leave the graph's
\* node set, its iteration order, its edge list and its circular-pair
\* list unchanged for every graph and every maxNodes, and a second
\* rendering with the same maxNodes gives the same diagram as the first.
C24_GraphUnchangedByOutput ==
    /\ [][pc' \in {"rendered", "reported"} =>
            /\ nodes' = nodes
            /\ nodeOrder' = nodeOrder
            /\ edges' = edges
            /\ circular' = circular]_vars
    /\ [](prevDiagram # NoDiagram => diagram = prevDiagram)

\* a graph with a circular pair and more nodes than maxNodes rendered twice
C24_RenderedTwice ==
    /\ pc = "rendered"
    /\ prevDiagram # NoDiagram
    /\ circular # <<>>
    /\ Len(nodeOrder) > maxNodes

\* file i has a reference that resolves to the Module of file j
ResolvesTo(i, j) ==
    \E r \in 1..Len(ImportsOf(i)) :
        RefEdge(i, ImportsOf(i)[r]) = << <<ModuleOf(i), ModuleOf(j)>> >>

\* C25: the node set is complete before any reference is resolved, and
\* cycle detection runs after the last file's edges are appended: while
\* nodes are assembled there is no edge and no circular pair, when the
\* first file's references are about to be resolved the iterated node set
\* holds the Module of every file, while edges are appended there is no
\* circular pair, a reference that resolves to the Module of a later file
\* has its edge in the built graph, and the
\* circular pairs of the built graph are those of the complete edge list.
C25_NodesThenEdgesThenCycles ==
    /\ pc = "nodes" => edges = <<>> /\ circular = <<>>
    /\ pc = "edges" => circular = <<>>
    /\ (pc = "edges" /\ fi = 1) =>
          /\ edges = <<>>
          /\ {nodeOrder[k] : k \in 1..Len(nodeOrder)} = ModulesOfFiles
    /\ pc = "done" =>
          /\ fi = Len(files) + 1
          /\ circular = detect_circular_dependencies(RefEdgesUpTo(Len(files)))
          /\ \A i, j \in 1..Len(files) :
                (i < j /\ ResolvesTo(i, j)) =>
                    InSeq(<<ModuleOf(i), ModuleOf(j)>>, edges)

\* an earlier file's reference resolved to a later file's Module, and the
\* later file's edge closed a circular pair
C25_ForwardReferenceInCycle ==
    /\ pc = "done"
    /\ \E i, j \in 1..Len(files) : i < j /\ ResolvesTo(i, j)
    /\ circular # <<>>

====
